---- MODULE Spec2Model ----
(***************************************************************************)
(* State-machine model of src/src/components/LearningMaterialPopup.js:     *)
(* the MultiSelectDropdown component (two instances) and the               *)
(* LearningMaterialPopup component that owns the contact info, the two     *)
(* selection lists and the validation error.                               *)
(*                                                                         *)
(* A JavaScript string is modelled as a sequence of one-character strings. *)
(***************************************************************************)
EXTENDS Integers, Sequences, FiniteSets, TLC

VARIABLES
    mounted,              \* the popup (and with it both dropdowns) is mounted
    onNext,               \* the onNext prop is a function (TRUE) or absent (FALSE)
    selectedMaterials,    \* useState([]), line 199
    selectedPreferences,  \* useState([]), line 201
    contactInfo,          \* useState(''), line 203
    error,                \* useState(''), line 205
    isOpen,               \* per dropdown instance: useState(false), line 22
    closeTimeoutRef,      \* per dropdown instance: useRef(null), line 23; 0 is null
    timers,               \* timers set by setTimeout that have neither fired nor been cleared
    timerSeq,             \* last timer id handed out by setTimeout
    listeners,            \* per dropdown: its handleClickOutside listeners on document
    lastHover,            \* per dropdown instance: its latest hover event, if any
    onNextCalls,          \* payloads onNext was invoked with by the latest handler
    onCloseCalls,         \* number of onClose invocations made by the latest handler
    lastEvent             \* the handler that ran last

vars == << mounted, onNext, selectedMaterials, selectedPreferences, contactInfo,
           error, isOpen, closeTimeoutRef, timers, timerSeq, listeners,
           lastHover, onNextCalls, onCloseCalls, lastEvent >>

----------------------------------------------------------------------------
(* Bounds of the model *)

\* setTimeout calls made over a run
MaxTimers == 2
\* length of the free strings given to validateContactInfo
MaxLen == 3
\* longest run of digits in the phone-shaped inputs given to validateContactInfo
MaxRun == 21

----------------------------------------------------------------------------
(* Characters and strings *)

Digits == {"0", "1", "2", "3", "4", "5", "6", "7", "8", "9"}

LowerLetters ==
    {"a", "b", "c", "d", "e", "f", "g", "h", "i", "j", "k", "l", "m",
     "n", "o", "p", "q", "r", "s", "t", "u", "v", "w", "x", "y", "z"}

UpperLetters ==
    {"A", "B", "C", "D", "E", "F", "G", "H", "I", "J", "K", "L", "M",
     "N", "O", "P", "Q", "R", "S", "T", "U", "V", "W", "X", "Y", "Z"}

\* \w
WordChars == LowerLetters \cup UpperLetters \cup Digits \cup {"_"}

\* \s, and the characters String.prototype.trim strips
WhiteSpace == {" ", "\t", "\n", "\r", "\f"}

\* [\w-.]
EmailLocalClass == WordChars \cup {"-", "."}

\* [\w-]
EmailDomainClass == WordChars \cup {"-"}

\* [a-z] under the i flag
EmailTldClass == LowerLetters \cup UpperLetters

\* [\d\s\-().]
PhoneClass == Digits \cup WhiteSpace \cup {"-", "(", ")", "."}

\* {2,}
TldMinLen == 2
\* {7,20}
PhoneMinLen == 7
PhoneMaxLen == 20

AllIn(s, C) == \A i \in 1..Len(s) : s[i] \in C

\* String.prototype.trim
trim(s) ==
    LET kept == {i \in 1..Len(s) : s[i] \notin WhiteSpace}
    IN  IF kept = {} THEN << >>
        ELSE SubSeq(s, CHOOSE i \in kept : \A j \in kept : i <= j,
                       CHOOSE i \in kept : \A j \in kept : j <= i)

\* /^[\w-.]+@[\w-]+\.[a-z]{2,}$/i .test(s)
emailRegex(s) ==
    \E at \in 1..Len(s), dot \in 1..Len(s) :
        /\ s[at] = "@"
        /\ s[dot] = "."
        /\ at >= 2
        /\ AllIn(SubSeq(s, 1, at - 1), EmailLocalClass)
        /\ dot >= at + 2
        /\ AllIn(SubSeq(s, at + 1, dot - 1), EmailDomainClass)
        /\ Len(s) - dot >= TldMinLen
        /\ AllIn(SubSeq(s, dot + 1, Len(s)), EmailTldClass)

\* /^\+?[\d\s\-().]{7,20}$/ .test(s)
phoneRegex(s) ==
    \E plus \in {0, 1} :
        /\ plus = 1 => (Len(s) >= 1 /\ s[1] = "+")
        /\ Len(s) - plus >= PhoneMinLen
        /\ Len(s) - plus <= PhoneMaxLen
        /\ AllIn(SubSeq(s, plus + 1, Len(s)), PhoneClass)

validateContactInfo(info) == emailRegex(trim(info)) \/ phoneRegex(trim(info))

----------------------------------------------------------------------------
(* The popup's option lists and messages *)

materialOptions ==
    << [text |-> "JavaScript", value |-> "javascript"],
       [text |-> "React", value |-> "react"] >>

preferenceOptions ==
    << [text |-> "Online", value |-> "online"],
       [text |-> "In-person", value |-> "inperson"],
       [text |-> "Self-paced", value |-> "selfpaced"] >>

Dropdowns == {"materials", "preferences"}

\* The two option lists passed to the wrong dropdowns
optionsSwapped(d) == IF d = "materials" THEN preferenceOptions ELSE materialOptions

options(d) == IF d = "materials" THEN materialOptions ELSE preferenceOptions

\* The text of the chip of a selected value: the option's text, or the raw value
\* when no option has that value
chipText(d, value) ==
    IF \E k \in 1..Len(options(d)) : options(d)[k].value = value
    THEN options(d)[CHOOSE k \in 1..Len(options(d)) : options(d)[k].value = value].text
    ELSE value

selectedOptions(d) == IF d = "materials" THEN selectedMaterials ELSE selectedPreferences

ErrEmptyContact == "Contact info is required."
ErrInvalidFormat == "Please enter a valid phone number or email address."

----------------------------------------------------------------------------
(* Contact strings the user types into the popup's text input *)

StrEmpty == << >>
StrBlank == << " ", "\t" >>
StrNotAnEmail == << "n", "o", "t", "-", "a", "n", "-", "e", "m", "a", "i", "l" >>
StrUserExample == << "u", "s", "e", "r", "@", "e", "x", "a", "m", "p", "l", "e", ".", "c", "o", "m" >>
StrPaddedEmail == << " ", "u", "s", "e", "r", "@", "e", "x", "a", "m", "p", "l", "e", ".", "c", "o", "m", " " >>
StrPhone == << "+", "1", " ", "(", "5", "5", "5", ")", " ", "1", "2", "3", "-", "4", "5", "6", "7" >>
StrTabPhone == << "5", "5", "5", "\t", "1", "2", "3", "4" >>

ContactInputs ==
    {StrEmpty, StrBlank, StrNotAnEmail, StrPaddedEmail, StrPhone, StrTabPhone}

----------------------------------------------------------------------------
(* MultiSelectDropdown *)

\* What lastEvent records: the handler, the dropdown instance it belongs to, the
\* option value and the row or chip position it was run for
Event(name, d, v, i) == [name |-> name, dropdown |-> d, value |-> v, index |-> i]

NoCalls == onNextCalls' = << >> /\ onCloseCalls' = 0

\* Array.prototype.includes
includes(seq, value) == \E i \in 1..Len(seq) : seq[i] = value

\* handleOptionClick with the new value put first: [value, ...selectedOptions]
handleOptionClickPrepends(selected, value) ==
    IF includes(selected, value)
    THEN SelectSeq(selected, LAMBDA v : v # value)
    ELSE << value >> \o selected

\* handleOptionClick with the filter test inverted: filter((v) => v === value)
handleOptionClickKeepsValue(selected, value) ==
    IF includes(selected, value)
    THEN SelectSeq(selected, LAMBDA v : v = value)
    ELSE Append(selected, value)

\* handleOptionClick without the includes test
handleOptionClickAppends(selected, value) == Append(selected, value)

\* The array handleOptionClick hands to setSelectedOptions
handleOptionClick(selected, value) ==
    IF includes(selected, value)
    THEN SelectSeq(selected, LAMBDA v : v # value)
    ELSE Append(selected, value)

\* Both dropdowns wired to one setter and one list
setSelectedOptionsShared(d, new) ==
    /\ selectedMaterials' = new
    /\ selectedPreferences' = new

\* The setter prop of dropdown d: setSelectedMaterials or setSelectedPreferences
setSelectedOptions(d, new) ==
    /\ selectedMaterials' = IF d = "materials" THEN new ELSE selectedMaterials
    /\ selectedPreferences' = IF d = "preferences" THEN new ELSE selectedPreferences

\* onChange of the checkbox of the i-th row of the open list
OptionRowChange(d, i) ==
    /\ mounted
    /\ isOpen[d]
    /\ i \in 1..Len(options(d))
    /\ setSelectedOptions(d, handleOptionClick(selectedOptions(d), options(d)[i].value))
    /\ lastEvent' = Event("optionRowChange", d, options(d)[i].value, i)
    /\ NoCalls
    /\ UNCHANGED << mounted, onNext, contactInfo, error, isOpen, closeTimeoutRef,
                    timers, timerSeq, listeners,
                    lastHover >>

\* The chip's remove click without stopPropagation: the header's toggleDropdown
\* runs too
ChipRemoveClickBubbles(d, i) ==
    /\ mounted
    /\ i \in 1..Len(selectedOptions(d))
    /\ setSelectedOptions(d, handleOptionClick(selectedOptions(d), selectedOptions(d)[i]))
    /\ isOpen' = [isOpen EXCEPT ![d] = ~isOpen[d]]
    /\ lastEvent' = Event("chipRemoveClick", d, selectedOptions(d)[i], i)
    /\ NoCalls
    /\ UNCHANGED << mounted, onNext, contactInfo, error, closeTimeoutRef,
                    timers, timerSeq, listeners, lastHover >>

\* onClick of the remove button of the i-th chip; stopPropagation keeps the
\* click from the header's toggleDropdown
ChipRemoveClick(d, i) ==
    /\ mounted
    /\ i \in 1..Len(selectedOptions(d))
    /\ setSelectedOptions(d, handleOptionClick(selectedOptions(d), selectedOptions(d)[i]))
    /\ lastEvent' = Event("chipRemoveClick", d, selectedOptions(d)[i], i)
    /\ NoCalls
    /\ UNCHANGED << mounted, onNext, contactInfo, error, isOpen, closeTimeoutRef,
                    timers, timerSeq, listeners,
                    lastHover >>

\* onClick of the dropdown header
toggleDropdown(d) ==
    /\ mounted
    /\ isOpen' = [isOpen EXCEPT ![d] = ~isOpen[d]]
    /\ lastEvent' = Event("toggleDropdown", d, "", 0)
    /\ NoCalls
    /\ UNCHANGED << mounted, onNext, selectedMaterials, selectedPreferences,
                    contactInfo, error, closeTimeoutRef, timers, timerSeq, listeners,
                    lastHover >>

handleMouseLeave(d) ==
    /\ mounted
    /\ timerSeq < MaxTimers
    /\ timerSeq' = timerSeq + 1
    /\ timers' = timers \cup {[id |-> timerSeq + 1, owner |-> d, disposed |-> FALSE]}
    /\ closeTimeoutRef' = [closeTimeoutRef EXCEPT ![d] = timerSeq + 1]
    /\ lastHover' = [lastHover EXCEPT ![d] = "leave"]
    /\ lastEvent' = Event("handleMouseLeave", d, "", 0)
    /\ NoCalls
    /\ UNCHANGED << mounted, onNext, selectedMaterials, selectedPreferences,
                    contactInfo, error, isOpen, listeners >>

handleMouseEnter(d) ==
    /\ mounted
    /\ IF closeTimeoutRef[d] # 0
       THEN /\ timers' = {t \in timers : t.id # closeTimeoutRef[d]}
            /\ closeTimeoutRef' = [closeTimeoutRef EXCEPT ![d] = 0]
       ELSE UNCHANGED << timers, closeTimeoutRef >>
    /\ lastHover' = [lastHover EXCEPT ![d] = "enter"]
    /\ lastEvent' = Event("handleMouseEnter", d, "", 0)
    /\ NoCalls
    /\ UNCHANGED << mounted, onNext, selectedMaterials, selectedPreferences,
                    contactInfo, error, isOpen, timerSeq, listeners >>

\* The callback given to setTimeout runs: setIsOpen(false). React drops a state
\* update of an instance that has been unmounted.
CloseTimeout(t) ==
    /\ t \in timers
    /\ timers' = timers \ {t}
    /\ isOpen' = IF t.disposed THEN isOpen ELSE [isOpen EXCEPT ![t.owner] = FALSE]
    /\ lastEvent' = Event("closeTimeout", t.owner, IF t.disposed THEN "disposed" ELSE "", 0)
    /\ NoCalls
    /\ UNCHANGED << mounted, onNext, selectedMaterials, selectedPreferences,
                    contactInfo, error, closeTimeoutRef, timerSeq, listeners,
                    lastHover >>

\* handleClickOutside without the contains test: closes on every mousedown
handleClickOutsideAlways(d, target, open) ==
    IF mounted THEN FALSE ELSE open

\* handleClickOutside that never closes
handleClickOutsideIgnores(d, target, open) == open

\* The open state handleClickOutside of instance d leaves; dropdownRef.current
\* is the instance's root element while it is mounted
handleClickOutside(d, target, open) ==
    IF mounted /\ target # d THEN FALSE ELSE open

\* A mousedown on the document: every registered handleClickOutside runs
MouseDown(target) ==
    /\ \E d \in Dropdowns : listeners[d] > 0
    /\ isOpen' = [d \in Dropdowns |->
                    IF listeners[d] > 0
                    THEN handleClickOutside(d, target, isOpen[d])
                    ELSE isOpen[d]]
    /\ lastEvent' = Event("mousedown", target, "", 0)
    /\ NoCalls
    /\ UNCHANGED << mounted, onNext, selectedMaterials, selectedPreferences,
                    contactInfo, error, closeTimeoutRef, timers, timerSeq, listeners,
                    lastHover >>

\* An unmount whose effect cleanup does not remove the mousedown listener
UnmountKeepsListeners ==
    /\ mounted
    /\ mounted' = FALSE
    /\ lastHover' = [d \in Dropdowns |-> "none"]
    /\ timers' = {[t EXCEPT !.disposed = TRUE] : t \in timers}
    /\ selectedMaterials' = << >>
    /\ selectedPreferences' = << >>
    /\ contactInfo' = StrEmpty
    /\ error' = ""
    /\ isOpen' = [d \in Dropdowns |-> FALSE]
    /\ closeTimeoutRef' = [d \in Dropdowns |-> 0]
    /\ lastEvent' = Event("unmount", "", "", 0)
    /\ NoCalls
    /\ UNCHANGED << onNext, timerSeq, listeners >>

\* The host unmounts the popup: the effect cleanup of each dropdown runs and
\* the component state is discarded
Unmount ==
    /\ mounted
    /\ mounted' = FALSE
    /\ listeners' = [d \in Dropdowns |-> listeners[d] - 1]
    /\ lastHover' = [d \in Dropdowns |-> "none"]
    /\ timers' = {[t EXCEPT !.disposed = TRUE] : t \in timers}
    /\ selectedMaterials' = << >>
    /\ selectedPreferences' = << >>
    /\ contactInfo' = StrEmpty
    /\ error' = ""
    /\ isOpen' = [d \in Dropdowns |-> FALSE]
    /\ closeTimeoutRef' = [d \in Dropdowns |-> 0]
    /\ lastEvent' = Event("unmount", "", "", 0)
    /\ NoCalls
    /\ UNCHANGED << onNext, timerSeq >>

\* The host mounts the popup again: fresh state, the effect of each dropdown runs
Mount ==
    /\ ~mounted
    /\ mounted' = TRUE
    /\ listeners' = [d \in Dropdowns |-> listeners[d] + 1]
    /\ lastHover' = [d \in Dropdowns |-> "none"]
    /\ selectedMaterials' = << >>
    /\ selectedPreferences' = << >>
    /\ contactInfo' = StrEmpty
    /\ error' = ""
    /\ isOpen' = [d \in Dropdowns |-> FALSE]
    /\ closeTimeoutRef' = [d \in Dropdowns |-> 0]
    /\ lastEvent' = Event("mount", "", "", 0)
    /\ NoCalls
    /\ UNCHANGED << onNext, timers, timerSeq >>

----------------------------------------------------------------------------
(* LearningMaterialPopup *)

\* An onChange that also clears the error
ChangeContactInfoClearsError(s) ==
    /\ mounted
    /\ s # contactInfo
    /\ contactInfo' = s
    /\ error' = ""
    /\ lastEvent' = Event("changeContactInfo", "", "", 0)
    /\ NoCalls
    /\ UNCHANGED << mounted, onNext, selectedMaterials, selectedPreferences,
                    isOpen, closeTimeoutRef, timers, timerSeq, listeners, lastHover >>

\* onChange of the contact input: setContactInfo(e.target.value)
ChangeContactInfo(s) ==
    /\ mounted
    /\ s # contactInfo
    /\ contactInfo' = s
    /\ lastEvent' = Event("changeContactInfo", "", "", 0)
    /\ NoCalls
    /\ UNCHANGED << mounted, onNext, selectedMaterials, selectedPreferences, error,
                    isOpen, closeTimeoutRef, timers, timerSeq, listeners,
                    lastHover >>

\* The payload with contactInfo passed as typed, not trimmed
PayloadUntrimmed ==
    [contactInfo |-> contactInfo,
     selectedMaterials |-> selectedMaterials,
     selectedPreferences |-> selectedPreferences]

\* The argument handleNextClick passes to onNext
Payload ==
    [contactInfo |-> trim(contactInfo),
     selectedMaterials |-> selectedMaterials,
     selectedPreferences |-> selectedPreferences]

\* handleNextClick with the first test on the untrimmed text: if (!contactInfo)
handleNextClickNoTrim ==
    /\ mounted
    /\ IF contactInfo = << >>
       THEN /\ error' = ErrEmptyContact
            /\ onNextCalls' = << >>
       ELSE IF ~validateContactInfo(trim(contactInfo))
       THEN /\ error' = ErrInvalidFormat
            /\ onNextCalls' = << >>
       ELSE /\ error' = ""
            /\ onNextCalls' = IF onNext THEN << Payload >> ELSE << >>
    /\ onCloseCalls' = 0
    /\ lastEvent' = Event("handleNextClick", "", "", 0)
    /\ UNCHANGED << mounted, onNext, selectedMaterials, selectedPreferences,
                    contactInfo, isOpen, closeTimeoutRef, timers, timerSeq, listeners,
                    lastHover >>

\* onClick of the Next button
handleNextClick ==
    /\ mounted
    /\ IF trim(contactInfo) = << >>
       THEN /\ error' = ErrEmptyContact
            /\ onNextCalls' = << >>
       ELSE IF ~validateContactInfo(trim(contactInfo))
       THEN /\ error' = ErrInvalidFormat
            /\ onNextCalls' = << >>
       ELSE /\ error' = ""
            /\ onNextCalls' = IF onNext THEN << Payload >> ELSE << >>
    /\ onCloseCalls' = 0
    /\ lastEvent' = Event("handleNextClick", "", "", 0)
    /\ UNCHANGED << mounted, onNext, selectedMaterials, selectedPreferences,
                    contactInfo, isOpen, closeTimeoutRef, timers, timerSeq, listeners,
                    lastHover >>

\* A close button that also clears the form before calling onClose
CloseClickResets ==
    /\ mounted
    /\ onCloseCalls' = 1
    /\ onNextCalls' = << >>
    /\ selectedMaterials' = << >>
    /\ selectedPreferences' = << >>
    /\ contactInfo' = StrEmpty
    /\ error' = ""
    /\ lastEvent' = Event("closeClick", "", "", 0)
    /\ UNCHANGED << mounted, onNext, isOpen, closeTimeoutRef, timers, timerSeq,
                    listeners,
                    lastHover >>

\* onClick of the close button: onClose
CloseClick ==
    /\ mounted
    /\ onCloseCalls' = 1
    /\ onNextCalls' = << >>
    /\ lastEvent' = Event("closeClick", "", "", 0)
    /\ UNCHANGED << mounted, onNext, selectedMaterials, selectedPreferences,
                    contactInfo, error, isOpen, closeTimeoutRef, timers, timerSeq,
                    listeners,
                    lastHover >>

----------------------------------------------------------------------------
(* Specifications *)

\* The state after the first render and its effects, but for the contact text.
\* The host passes onClose and onNext as the functions the component documents.
InitExceptContact ==
    /\ mounted = TRUE
    /\ onNext = TRUE
    /\ selectedMaterials = << >>
    /\ selectedPreferences = << >>
    /\ error = ""
    /\ isOpen = [d \in Dropdowns |-> FALSE]
    /\ closeTimeoutRef = [d \in Dropdowns |-> 0]
    /\ timers = {}
    /\ timerSeq = 0
    /\ listeners = [d \in Dropdowns |-> 1]
    /\ lastHover = [d \in Dropdowns |-> "none"]
    /\ onNextCalls = << >>
    /\ onCloseCalls = 0
    /\ lastEvent = Event("mount", "", "", 0)

\* The state after the first render and its effects
Init == InitExceptContact /\ contactInfo = StrEmpty

Targets == Dropdowns \cup {"elsewhere"}

Next ==
    \/ \E d \in Dropdowns, i \in 1..3 : OptionRowChange(d, i)
    \/ \E d \in Dropdowns, i \in 1..3 : ChipRemoveClick(d, i)
    \/ \E d \in Dropdowns : toggleDropdown(d)
    \/ \E target \in Targets : MouseDown(target)
    \/ \E s \in ContactInputs : ChangeContactInfo(s)
    \/ handleNextClick
    \/ CloseClick

Spec == Init /\ [][Next]_vars

NextDropdown ==
    \/ \E d \in Dropdowns, i \in 1..3 : OptionRowChange(d, i)
    \/ \E d \in Dropdowns, i \in 1..3 : ChipRemoveClick(d, i)
    \/ \E d \in Dropdowns : toggleDropdown(d)
    \/ \E target \in Targets : MouseDown(target)
    \/ \E d \in Dropdowns : handleMouseLeave(d)
    \/ \E d \in Dropdowns : handleMouseEnter(d)
    \/ \E t \in timers : CloseTimeout(t)
    \/ Unmount
    \/ Mount

SpecDropdown == Init /\ [][NextDropdown]_vars

\* The open state, the hover timers and the document listeners of the two
\* instances over mounts and unmounts
NextHover ==
    \/ \E d \in Dropdowns : toggleDropdown(d)
    \/ \E target \in Targets : MouseDown(target)
    \/ \E d \in Dropdowns : handleMouseLeave(d)
    \/ \E d \in Dropdowns : handleMouseEnter(d)
    \/ \E t \in timers : CloseTimeout(t)
    \/ Unmount
    \/ Mount

SpecHover == Init /\ [][NextHover]_vars

\* The two instances while the popup stays mounted
NextInstances ==
    \/ \E d \in Dropdowns, i \in 1..3 : OptionRowChange(d, i)
    \/ \E d \in Dropdowns, i \in 1..3 : ChipRemoveClick(d, i)
    \/ \E d \in Dropdowns : toggleDropdown(d)
    \/ \E target \in Targets : MouseDown(target)
    \/ \E d \in Dropdowns : handleMouseLeave(d)
    \/ \E d \in Dropdowns : handleMouseEnter(d)
    \/ \E t \in timers : CloseTimeout(t)

SpecInstances == Init /\ [][NextInstances]_vars

\* A click on the header of dropdown d that follows the mousedown on d, as a
\* pointer produces it
HeaderClick(d) ==
    /\ lastEvent.name = "mousedown"
    /\ lastEvent.dropdown = d
    /\ toggleDropdown(d)

\* The two instances driven by a pointer: a header is clicked only after the
\* mousedown on the same dropdown
NextPointer ==
    \/ \E d \in Dropdowns, i \in 1..3 : OptionRowChange(d, i)
    \/ \E d \in Dropdowns, i \in 1..3 : ChipRemoveClick(d, i)
    \/ \E d \in Dropdowns : HeaderClick(d)
    \/ \E target \in Targets : MouseDown(target)
    \/ \E d \in Dropdowns : handleMouseLeave(d)
    \/ \E d \in Dropdowns : handleMouseEnter(d)
    \/ \E t \in timers : CloseTimeout(t)

SpecPointer == Init /\ [][NextPointer]_vars

----------------------------------------------------------------------------
(* validateContactInfo on bounded inputs *)

Alphabet == {"a", "Z", "7", "_", "@", "+", ".", "-", "(", ")", " ", "\t"}

TldAlphabet == {"a", "Z", "7"}

Strings(A, n) == UNION {[1..k -> A] : k \in 0..n}

Pads == {<< >>, << " " >>, << "\t" >>}

Run(k) == [i \in 1..k |-> "7"]

\* local "@" domain "." tld, each part a short string, with whitespace around
EmailShaped ==
    {p \o a \o << "@" >> \o b \o << "." >> \o c \o q :
        p \in Pads, a \in Strings(Alphabet, 1), b \in Strings(Alphabet, 1),
        c \in Strings(TldAlphabet, MaxLen), q \in Pads}

\* a short prefix, a run of digits of any length up to MaxRun, a short suffix
PhoneShaped ==
    {p \o Run(k) \o q :
        p \in Strings(Alphabet, 2), k \in 0..MaxRun, q \in Strings(Alphabet, 1)}

ValidateInputs ==
    Strings(Alphabet, MaxLen) \cup EmailShaped \cup PhoneShaped \cup ContactInputs
        \cup {StrUserExample}

InitValidate == InitExceptContact /\ contactInfo \in ValidateInputs

\* validateContactInfo(contactInfo) is called once on the drawn input
ValidateStep ==
    /\ lastEvent.name = "mount"
    /\ lastEvent' = Event("validateContactInfo", "",
                          IF validateContactInfo(contactInfo) THEN "true" ELSE "false", 0)
    /\ NoCalls
    /\ UNCHANGED << mounted, onNext, selectedMaterials, selectedPreferences,
                    contactInfo, error, isOpen, closeTimeoutRef, timers, timerSeq,
                    listeners,
                    lastHover >>

NextValidate == ValidateStep

SpecValidate == InitValidate /\ [][NextValidate]_vars

----------------------------------------------------------------------------
(* The patterns and the trimming as the specification words them *)

Range(seq) == {seq[i] : i \in 1..Len(seq)}

RECURSIVE StripLeft(_)
StripLeft(s) ==
    IF s # << >> /\ Head(s) \in {" ", "\t", "\n", "\r", "\f"} THEN StripLeft(Tail(s)) ELSE s

RECURSIVE StripRight(_)
StripRight(s) ==
    IF s # << >> /\ s[Len(s)] \in {" ", "\t", "\n", "\r", "\f"}
    THEN StripRight(SubSeq(s, 1, Len(s) - 1))
    ELSE s

Trimmed(s) == StripRight(StripLeft(s))

\* one or more of word character, hyphen, dot; "@"; one or more of word character,
\* hyphen; "."; two or more letters of either case
SpecEmailPattern(s) ==
    LET ats == {i \in 1..Len(s) : s[i] = "@"}
    IN  /\ Cardinality(ats) = 1
        /\ LET at == CHOOSE i \in ats : TRUE
               local == SubSeq(s, 1, at - 1)
               rest == SubSeq(s, at + 1, Len(s))
               dots == {i \in 1..Len(rest) : rest[i] = "."}
           IN  /\ Len(local) >= 1
               /\ Range(local) \subseteq WordChars \cup {"-", "."}
               /\ Cardinality(dots) = 1
               /\ LET dot == CHOOSE i \in dots : TRUE
                      domain == SubSeq(rest, 1, dot - 1)
                      tld == SubSeq(rest, dot + 1, Len(rest))
                  IN  /\ Len(domain) >= 1
                      /\ Range(domain) \subseteq WordChars \cup {"-"}
                      /\ Len(tld) >= 2
                      /\ Range(tld) \subseteq LowerLetters \cup UpperLetters

\* optional leading "+", then 7 to 20 characters drawn from digits, space, hyphen,
\* parentheses and dot
SpecPhonePattern(s) ==
    LET body == IF s # << >> /\ Head(s) = "+" THEN Tail(s) ELSE s
    IN  /\ Len(body) \in 7..20
        /\ Range(body) \subseteq Digits \cup {" ", "-", "(", ")", "."}

SpecMatches(s) == SpecEmailPattern(Trimmed(s)) \/ SpecPhonePattern(Trimmed(s))

----------------------------------------------------------------------------
(* Properties *)

ToggleStep(d) ==
    /\ lastEvent'.name \in {"optionRowChange", "chipRemoveClick"}
    /\ lastEvent'.dropdown = d

NextClickStep == lastEvent'.name = "handleNextClick"

Blank(s) == \A i \in 1..Len(s) : s[i] \in {" ", "\t", "\n", "\r", "\f"}

NoDuplicates(seq) == \A i, j \in 1..Len(seq) : seq[i] = seq[j] => i = j

\* seq with its k-th element taken out
Without(seq, k) == SubSeq(seq, 1, k - 1) \o SubSeq(seq, k + 1, Len(seq))

\* C1, as stated: after a toggle of value V in a dropdown, toggling V again gives
\* back the selection the dropdown had before the first toggle, same contents in
\* the same order.
C1_DoubleToggleRestores ==
    [][\A d \in Dropdowns :
          ToggleStep(d) =>
              handleOptionClick(selectedOptions(d)', lastEvent'.value) = selectedOptions(d)]_vars

\* C1, amended: toggling V twice gives back the same set of values; the order is
\* the original one when V was absent or was the last element, and otherwise V
\* has moved to the end with the other elements in their previous order.
C1_DoubleToggleAmended ==
    [][\A d \in Dropdowns :
          ToggleStep(d) =>
              LET S == selectedOptions(d)
                  V == lastEvent'.value
                  S2 == handleOptionClick(selectedOptions(d)', V)
              IN  /\ Range(S2) = Range(S)
                  /\ Len(S2) = Len(S)
                  /\ (V \notin Range(S) \/ S[Len(S)] = V) => S2 = S
                  /\ V \in Range(S) =>
                        \E k \in 1..Len(S) : S[k] = V /\ S2 = Append(Without(S, k), V)]_vars

\* A chip that was first of three in the preferences dropdown has just been removed
C1_Witness ==
    /\ lastEvent.name = "chipRemoveClick"
    /\ lastEvent.dropdown = "preferences"
    /\ lastEvent.index = 1
    /\ Len(selectedPreferences) = 2

\* C2: a toggle of V, from a checkbox row or from a chip's remove button, appends
\* V as the last element when V is absent, and when V is present removes exactly
\* the element V and keeps the others in their order; removing javascript by its
\* chip from [javascript, react] gives [react].
C2_ToggleAppendsOrRemoves ==
    [][\A d \in Dropdowns :
          ToggleStep(d) =>
              LET S == selectedOptions(d)
                  V == lastEvent'.value
                  T == selectedOptions(d)'
              IN  /\ V \notin Range(S) => T = Append(S, V)
                  /\ V \in Range(S) => \E k \in 1..Len(S) : S[k] = V /\ T = Without(S, k)
                  /\ (/\ d = "materials"
                      /\ S = << "javascript", "react" >>
                      /\ lastEvent'.name = "chipRemoveClick"
                      /\ V = "javascript") => T = << "react" >>]_vars

\* javascript, selected before react, has just been removed by its chip
C2_Witness ==
    /\ lastEvent = Event("chipRemoveClick", "materials", "javascript", 1)
    /\ selectedMaterials = << "react" >>

\* C3: neither selectedMaterials nor selectedPreferences ever holds a value twice.
C3_NoDuplicateSelections ==
    NoDuplicates(selectedMaterials) /\ NoDuplicates(selectedPreferences)

\* Every option of both dropdowns is selected, the last one by a checkbox row
C3_Witness ==
    /\ Len(selectedMaterials) = 2
    /\ Len(selectedPreferences) = 3
    /\ lastEvent.name = "optionRowChange"

\* C4: a Next click while the contact text is empty or only whitespace sets the
\* error to "Contact info is required." and does not invoke onNext.
C4_EmptyContactRejected ==
    [][(NextClickStep /\ Blank(contactInfo)) =>
          (error' = "Contact info is required." /\ onNextCalls' = << >>)]_vars

\* Next was clicked on a whitespace-only text with options selected
C4_Witness ==
    /\ lastEvent.name = "handleNextClick"
    /\ contactInfo = StrBlank
    /\ error = ErrEmptyContact
    /\ selectedMaterials # << >>
    /\ selectedPreferences # << >>

\* C5: a Next click while the trimmed contact text is non-empty and matches
\* neither the email pattern nor the phone pattern sets the error to "Please
\* enter a valid phone number or email address.", does not invoke onNext and
\* leaves the contact text and both selections unchanged.
C5_InvalidFormatRejected ==
    [][(/\ NextClickStep
        /\ ~Blank(contactInfo)
        /\ ~SpecEmailPattern(Trimmed(contactInfo))
        /\ ~SpecPhonePattern(Trimmed(contactInfo))) =>
          (/\ error' = "Please enter a valid phone number or email address."
           /\ onNextCalls' = << >>
           /\ UNCHANGED << contactInfo, selectedMaterials, selectedPreferences >>)]_vars

\* C6: a Next click while the contact text passes validation clears the error
\* and invokes onNext exactly once, with the trimmed contact text and the two
\* current selections in order.
C6_ValidSubmitInvokesOnNext ==
    [][(NextClickStep /\ validateContactInfo(contactInfo)) =>
          (/\ error' = ""
           /\ onNextCalls' = << [contactInfo |-> Trimmed(contactInfo),
                                 selectedMaterials |-> selectedMaterials,
                                 selectedPreferences |-> selectedPreferences] >>
           /\ onCloseCalls' = 0)]_vars

\* Next was clicked on " user@example.com " with nothing selected
C6_Witness ==
    /\ lastEvent.name = "handleNextClick"
    /\ contactInfo = StrPaddedEmail
    /\ error = ""
    /\ onNextCalls = << [contactInfo |-> StrUserExample,
                         selectedMaterials |-> << >>,
                         selectedPreferences |-> << >>] >>

\* C7: validateContactInfo(S) is true exactly when trimmed S matches the email
\* pattern or the phone pattern of the specification.
C7_ValidateMatchesSpecPatterns ==
    lastEvent.name = "validateContactInfo" =>
        (lastEvent.value = "true" <=> SpecMatches(contactInfo))

\* What does hold of validateContactInfo: it accepts every string the
\* specification's patterns accept, "+1 (555) 123-4567" among them, and the two
\* differ only on strings with whitespace other than the space inside them.
ValidateAgreesButForWhitespace ==
    lastEvent.name = "validateContactInfo" =>
        /\ SpecMatches(contactInfo) => lastEvent.value = "true"
        /\ contactInfo = StrPhone => lastEvent.value = "true"
        /\ Range(Trimmed(contactInfo)) \cap {"\t", "\n", "\r", "\f"} = {} =>
              (lastEvent.value = "true" <=> SpecMatches(contactInfo))

\* C8: the close button invokes onClose and nothing else: no validation (error
\* unchanged, onNext not invoked), and contact text, selections and the
\* dropdowns' open states unchanged.
C8_CloseOnlyInvokesOnClose ==
    [][lastEvent'.name = "closeClick" =>
          (/\ onCloseCalls' = 1
           /\ onNextCalls' = << >>
           /\ UNCHANGED << error, contactInfo, selectedMaterials, selectedPreferences,
                           isOpen >>)]_vars

\* Close was clicked with an invalid contact text, a selection and an open dropdown
C8_Witness ==
    /\ lastEvent.name = "closeClick"
    /\ onCloseCalls = 1
    /\ contactInfo = StrNotAnEmail
    /\ selectedMaterials # << >>
    /\ isOpen["materials"]

PendingCloses(d) == {t \in timers : t.owner = d /\ ~t.disposed}

\* C9: each dropdown instance has at most one delayed close pending at any time.
C9_AtMostOnePendingClose ==
    \A d \in Dropdowns : Cardinality(PendingCloses(d)) <= 1

\* C10: once a dropdown is unmounted, no close timer set by an earlier mouse-leave
\* of that instance fires.
C10_NoCloseTimeoutAfterUnmount ==
    ~(lastEvent.name = "closeTimeout" /\ lastEvent.value = "disposed")

\* A close timer of a mounted instance has just closed dropdown d
TimerClosed(d) ==
    /\ lastEvent'.name = "closeTimeout"
    /\ lastEvent'.dropdown = d
    /\ lastEvent'.value # "disposed"
    /\ isOpen[d]
    /\ ~isOpen'[d]

\* C11: mouse-enter cancels the pending delayed close: a timer closes a dropdown
\* only when the latest hover event of that dropdown was a leave, never while
\* the pointer has re-entered and stayed inside.
C11_TimerClosesOnlyAfterLeave ==
    [][\A d \in Dropdowns : TimerClosed(d) => lastHover[d] = "leave"]_vars

\* C12: the number of document mousedown listeners of each dropdown is one while
\* it is mounted and none after its unmount, over any sequence of mounts and
\* unmounts, and no mousedown handler runs for an unmounted dropdown.
C12_ListenersMatchMounted ==
    /\ \A d \in Dropdowns : listeners[d] = IF mounted THEN 1 ELSE 0
    /\ lastEvent.name = "mousedown" => mounted

\* A mousedown reached the listeners of a popup that was unmounted and mounted
\* again (a timer of the earlier instances is still pending)
C12_Witness ==
    /\ mounted
    /\ lastEvent.name = "mousedown"
    /\ \E t \in timers : t.disposed

\* C13: a mousedown whose target is outside a mounted dropdown closes it, one
\* whose target is inside leaves its open state as it was, pending close timer
\* or not, and neither changes a selection.
C13_MouseDownClosesOutsideOnly ==
    [][lastEvent'.name = "mousedown" =>
          /\ \A d \in Dropdowns :
                isOpen'[d] = IF lastEvent'.dropdown = d THEN isOpen[d] ELSE FALSE
          /\ UNCHANGED << selectedMaterials, selectedPreferences >>]_vars

\* A mousedown inside the open preferences dropdown, which has a close timer
\* pending, left it open; the materials dropdown, opened earlier, is closed
C13_Witness ==
    /\ lastEvent = Event("mousedown", "preferences", "", 0)
    /\ isOpen["preferences"]
    /\ PendingCloses("preferences") # {}
    /\ ~isOpen["materials"]
    /\ selectedMaterials # << >>

\* C14: a chip's remove click takes the chip's value out of the selection and
\* leaves the open state of the dropdown as it was.
C14_ChipRemoveKeepsOpenState ==
    [][\A d \in Dropdowns :
          (lastEvent'.name = "chipRemoveClick" /\ lastEvent'.dropdown = d) =>
              /\ lastEvent'.value \in Range(selectedOptions(d))
              /\ lastEvent'.value \notin Range(selectedOptions(d)')
              /\ isOpen' = isOpen]_vars

\* A chip of the open materials dropdown was removed and the dropdown is still open
C14_Witness ==
    /\ lastEvent.name = "chipRemoveClick"
    /\ lastEvent.dropdown = "materials"
    /\ isOpen["materials"]

\* C15: the error changes only in a step of the Next button: editing the contact
\* text, toggling options, opening or closing a dropdown and the close button
\* leave it as it was, so an error stays on display after the text is corrected.
C15_ErrorChangesOnlyOnSubmit ==
    [][error' # error => lastEvent'.name = "handleNextClick"]_vars

\* The text was corrected to a valid phone number and the error of the failed
\* submit is still there
C15_Witness ==
    /\ lastEvent.name = "changeContactInfo"
    /\ contactInfo = StrPhone
    /\ error = ErrInvalidFormat

OwnEvents ==
    {"optionRowChange", "chipRemoveClick", "toggleDropdown", "handleMouseLeave",
     "handleMouseEnter", "closeTimeout"}

TimersOf(d) == {t \in timers : t.owner = d}

\* C16: a toggle, chip removal, header click, hover event or timer close of one
\* dropdown leaves the selection, the open state, the timer reference and the
\* pending timers of the other dropdown unchanged.
C16_InstancesIndependent ==
    [][\A d, e \in Dropdowns :
          (d # e /\ lastEvent'.name \in OwnEvents /\ lastEvent'.dropdown = d) =>
              /\ selectedOptions(e)' = selectedOptions(e)
              /\ isOpen'[e] = isOpen[e]
              /\ closeTimeoutRef'[e] = closeTimeoutRef[e]
              /\ TimersOf(e)' = TimersOf(e)]_vars

\* A timer closed the materials dropdown while the preferences dropdown is open
\* with a selection and a close timer pending
C16_Witness ==
    /\ lastEvent.name = "closeTimeout"
    /\ lastEvent.dropdown = "materials"
    /\ ~isOpen["materials"]
    /\ isOpen["preferences"]
    /\ selectedPreferences # << >>
    /\ TimersOf("preferences") # {}

\* C17: every value in selectedMaterials is the value of a material option and
\* every value in selectedPreferences is the value of a preference option, so
\* every chip shows an option's text, never the raw value, and every onNext
\* payload holds known option values only.
C17_SelectionsAreKnownOptions ==
    LET materialValues == {"javascript", "react"}
        preferenceValues == {"online", "inperson", "selfpaced"}
        texts == {"JavaScript", "React", "Online", "In-person", "Self-paced"}
    IN  /\ Range(selectedMaterials) \subseteq materialValues
        /\ Range(selectedPreferences) \subseteq preferenceValues
        /\ \A d \in Dropdowns :
              \A v \in Range(selectedOptions(d)) : chipText(d, v) \in texts
        /\ \A k \in 1..Len(onNextCalls) :
              /\ Range(onNextCalls[k].selectedMaterials) \subseteq materialValues
              /\ Range(onNextCalls[k].selectedPreferences) \subseteq preferenceValues

\* onNext was invoked with a selection from both dropdowns
C17_Witness ==
    /\ Len(onNextCalls) = 1
    /\ onNextCalls[1].selectedMaterials # << >>
    /\ onNextCalls[1].selectedPreferences # << >>

\* C18: when a header is clicked only after a mousedown on the same dropdown, the
\* two dropdowns are never open together.
C18_AtMostOneOpen ==
    ~(isOpen["materials"] /\ isOpen["preferences"])

\* A header click opened the preferences dropdown after the materials dropdown
\* had been open (a row of its list was checked) and was closed
C18_Witness ==
    /\ lastEvent.name = "toggleDropdown"
    /\ lastEvent.dropdown = "preferences"
    /\ isOpen["preferences"]
    /\ ~isOpen["materials"]
    /\ selectedMaterials # << >>

====
